---- MODULE Spec2Model ----
(***************************************************************************)
(* Sibling chain of a Forest (src/sib/forest.rs) and the mutating cursor   *)
(* OntoIter / Subnode (src/linked/singly/onto_iter.rs).                    *)
(*                                                                         *)
(* A Node is an address in 1..MaxNodes; NULL is the null pointer.  Only    *)
(* the sibling link of a node is modelled (field `sib` in forest.rs, field *)
(* `next` in onto_iter.rs): no operation of the two files reads or writes  *)
(* a node's child link or its payload.                                     *)
(***************************************************************************)
EXTENDS Integers, Sequences, FiniteSets, TLC

MaxNodes == 5

NULL == 0

Nodes == 1..MaxNodes

Forests == {"A", "B"}

VARIABLES
    sib,       \* Node.sib / Node.next : the sibling link of every address
    sub,       \* Forest.sub : the tail pointer of each forest
    trees,     \* roots of the single-node Tree values the caller owns
    free,      \* addresses of the Nodes the caller has dropped
    it,        \* the OntoIter, if one is live
    hd,        \* the Subnode handed out by the last OntoIter::next, if live
    orig,      \* history: children() of the forest when the cursor was made
    visited,   \* history: nodes yielded by the cursor, in order
    muts,      \* history: insert_before / insert_after / depart calls made
    ret,       \* history: result of the last OntoIter::next (NULL for None)
    noneSeen,  \* history: OntoIter::next has returned None
    pushed,    \* history: reference sequence of the pushes made on a forest
    onlyPush,  \* history: the forest was empty and only pushes followed
    rd,        \* the Iter / IterMut over the children, if one is live
    res        \* history: the operands and the result of the last call
               \* made by the caller of SpecAlg

vars == <<sib, sub, trees, free, it, hd, orig, visited, muts, ret, noneSeen,
          pushed, onlyPush, rd, res>>

hist == <<orig, visited, muts, ret, noneSeen>>

----------------------------------------------------------------------------
(* Node helpers *)

\* Node::reset_sib : the no-sibling state of a root is a link to itself
reset_sib(s, n) == [s EXCEPT ![n] = n]

\* Node::has_no_sib
has_no_sib(s, n) == s[n] = n

\* A read of (*p).next.  Reading through a pointer to dropped memory is
\* undefined: any pointer value may come back.
Load(s, p) == IF p \in free THEN Nodes ELSE {s[p]}

\* A write of (*p).next = v.  A write to dropped memory reaches no live Node.
Store(s, p, v) == IF p \in free THEN s ELSE [s EXCEPT ![p] = v]

----------------------------------------------------------------------------
(* Forest helpers, forest.rs lines 30-50 *)

is_empty(u, f) == u[f] = NULL

tail(u, f) == u[f]

head(s, u, f) == s[u[f]]

new_head(s, u, f) == s[head(s, u, f)]

has_only_one_child(s, u, f) == head(s, u, f) = tail(u, f)

set_child(u, f, node) == [u EXCEPT ![f] = node]

clear(u, f) == [u EXCEPT ![f] = NULL]

adopt(s, u, f, child) == [s EXCEPT ![tail(u, f)] = child]

set_sib(s, u, f, p) == [s EXCEPT ![tail(u, f)] = p]

\* Iter::next driven to exhaustion from Forest::children : the nodes from
\* head to tail.  A chain that does not come back to the tail within
\* MaxNodes steps is cut there and marked with a trailing NULL.
RECURSIVE IterFrom(_, _, _, _)
IterFrom(s, h, t, fuel) ==
    IF fuel = 0 THEN <<NULL>>
    ELSE IF h = t THEN <<h>>
    ELSE <<h>> \o IterFrom(s, s[h], t, fuel - 1)

children(s, u, f) ==
    IF is_empty(u, f) THEN <<>>
    ELSE IterFrom(s, head(s, u, f), tail(u, f), MaxNodes)

\* Forest::last
last(u, f) == IF is_empty(u, f) THEN NULL ELSE tail(u, f)

----------------------------------------------------------------------------
(* Forest operations as functions of the heap: [sib, sub] *)

\* push_front that also moves the tail pointer, as push_back does
PushFrontAsBack(s, u, f, t) ==
    IF is_empty(u, f)
    THEN [sib |-> s, sub |-> set_child(u, f, t)]
    ELSE LET s1 == [s EXCEPT ![t] = head(s, u, f)]
         IN  [sib |-> adopt(s1, u, f, t), sub |-> set_child(u, f, t)]

PushFront(s, u, f, t) ==
    IF is_empty(u, f)
    THEN [sib |-> s, sub |-> set_child(u, f, t)]
    ELSE LET s1 == [s EXCEPT ![t] = head(s, u, f)]
         IN  [sib |-> adopt(s1, u, f, t), sub |-> u]

PushBack(s, u, f, t) ==
    LET s2 == IF ~is_empty(u, f)
              THEN adopt([s EXCEPT ![t] = head(s, u, f)], u, f, t)
              ELSE s
    IN  [sib |-> s2, sub |-> set_child(u, f, t)]

\* pop_front that leaves the tail linked to the popped head
PopFrontNoRelink(s, u, f) ==
    LET front == head(s, u, f)
        u1 == IF has_only_one_child(s, u, f) THEN clear(u, f) ELSE u
    IN  [sib |-> reset_sib(s, front), sub |-> u1, front |-> front]

\* pop_front that takes the one-child case for the general one
PopFrontNeverClears(s, u, f) ==
    LET front == head(s, u, f)
        s1 == [s EXCEPT ![tail(u, f)] = new_head(s, u, f)]
    IN  [sib |-> reset_sib(s1, front), sub |-> u, front |-> front]

PopFront(s, u, f) ==
    LET front == head(s, u, f)
        u1 == IF has_only_one_child(s, u, f) THEN clear(u, f) ELSE u
        s1 == IF has_only_one_child(s, u, f) THEN s
              ELSE [s EXCEPT ![tail(u, f)] = new_head(s, u, f)]
    IN  [sib |-> reset_sib(s1, front), sub |-> u1, front |-> front]

\* prepend that adopts the head of the argument as the tail of an empty
\* receiver
PrependHeadChild(s, u, f, g) ==
    IF is_empty(u, g) THEN [sib |-> s, sub |-> u]
    ELSE IF is_empty(u, f)
         THEN [sib |-> s, sub |-> clear(set_child(u, f, head(s, u, g)), g)]
         ELSE LET forest_head == head(s, u, g)
                  s1 == set_sib(s, u, g, head(s, u, f))
              IN  [sib |-> adopt(s1, u, f, forest_head), sub |-> clear(u, g)]

Prepend(s, u, f, g) ==
    IF is_empty(u, g) THEN [sib |-> s, sub |-> u]
    ELSE IF is_empty(u, f)
         THEN [sib |-> s, sub |-> clear(set_child(u, f, tail(u, g)), g)]
         ELSE LET forest_head == head(s, u, g)
                  s1 == set_sib(s, u, g, head(s, u, f))
              IN  [sib |-> adopt(s1, u, f, forest_head), sub |-> clear(u, g)]

\* append that forgets to move the tail pointer
AppendNoTail(s, u, f, g) ==
    IF is_empty(u, g) THEN [sib |-> s, sub |-> u]
    ELSE LET forest_head == head(s, u, g)
             s2 == IF ~is_empty(u, f)
                   THEN adopt(set_sib(s, u, g, head(s, u, f)), u, f, forest_head)
                   ELSE s
         IN  [sib |-> s2, sub |-> clear(u, g)]

AppendF(s, u, f, g) ==
    IF is_empty(u, g) THEN [sib |-> s, sub |-> u]
    ELSE LET forest_head == head(s, u, g)
             s2 == IF ~is_empty(u, f)
                   THEN adopt(set_sib(s, u, g, head(s, u, f)), u, f, forest_head)
                   ELSE s
         IN  [sib |-> s2, sub |-> clear(set_child(u, f, tail(u, g)), g)]

----------------------------------------------------------------------------
(* Cursor values *)

NoIter == [live |-> FALSE, next |-> NULL, curr |-> NULL, prev |-> NULL,
           child |-> NULL, ptail |-> "none"]

NoSubnode == [live |-> FALSE, node |-> NULL, prev |-> NULL, ptail |-> "none"]

\* a cursor that starts at the tail instead of the head
SubtreeIterFromTail(s, u, f) ==
    IF is_empty(u, f)
    THEN [live |-> TRUE, next |-> NULL, curr |-> NULL, prev |-> NULL,
          child |-> NULL, ptail |-> f]
    ELSE [live |-> TRUE, next |-> u[f], curr |-> NULL,
          prev |-> u[f], child |-> u[f], ptail |-> f]

\* Forest::subtrees
SubtreeIter(s, u, f) ==
    IF is_empty(u, f)
    THEN [live |-> TRUE, next |-> NULL, curr |-> NULL, prev |-> NULL,
          child |-> NULL, ptail |-> f]
    ELSE [live |-> TRUE, next |-> head(s, u, f), curr |-> NULL,
          prev |-> u[f], child |-> u[f], ptail |-> f]

\* insert_before that forgets to link the predecessor to the new node
InsertBeforeNoLink(s, h, t) == [s EXCEPT ![t] = h.node]

\* Subnode::insert_before
InsertBefore(s, h, t) ==
    LET s1 == [s EXCEPT ![t] = h.node]
    IN  Store(s1, h.prev, t)

\* Subnode::insert_after, the two link writes
InsertAfterSib(s, h, t) ==
    LET s1 == [s EXCEPT ![t] = s[h.node]]
    IN  [s1 EXCEPT ![h.node] = t]

\* insert_after that never writes through ptail
InsertAfterSubNoTail(u, h, t) == u

\* Subnode::insert_after, the write through ptail
InsertAfterSub(u, h, t) ==
    IF u[h.ptail] = h.node THEN [u EXCEPT ![h.ptail] = t] ELSE u

\* Subnode::depart, the write through ptail
DepartSub(s, u, h) ==
    IF u[h.ptail] = h.node
    THEN [u EXCEPT ![h.ptail] = IF has_no_sib(s, h.node) THEN NULL ELSE h.prev]
    ELSE u

\* depart that leaves the predecessor linked to the departed node
DepartSibNoUnlink(s, h) == reset_sib(s, h.node)

\* depart that hands the node out with its old sibling link
DepartSibNoReset(s, h) == Store(s, h.prev, s[h.node])

\* Subnode::depart, the link writes
DepartSib(s, h) ==
    reset_sib(Store(s, h.prev, s[h.node]), h.node)

\* a refresh of prev that takes no notice of a depart
NextPrevAlways(i, v) ==
    IF i.curr # NULL THEN i.curr ELSE i.prev

\* OntoIter::next, the refresh of prev: v is the value read from (*prev).next
NextPrev(i, v) ==
    IF i.curr # NULL /\ v # i.next THEN i.curr ELSE i.prev

\* an end test against the forest's current tail instead of the tail the
\* cursor was made with
AtEndCurrentTail(i) ==
    i.curr # NULL /\ (i.curr = sub[i.ptail] \/ i.curr = i.next)

\* an end test that does not look for the tail
AtEndNoChild(i) ==
    i.curr # NULL /\ i.curr = i.next

\* OntoIter::next, the test that ends the traversal
AtEnd(i) ==
    i.curr # NULL /\ (i.curr = i.child \/ i.curr = i.next)

----------------------------------------------------------------------------
(* History bookkeeping *)

\* no call is on record
NoRes == [op |-> "none"]

\* no Iter / IterMut is live
NoRd == [live |-> FALSE, kind |-> "none", head |-> NULL, tail |-> NULL,
         len |-> 0, src |-> <<>>, seen |-> <<>>, none |-> FALSE]

\* the operations of Forest and of the cursor do not touch an Iter, and
\* they end the record of the call before them
NoAux ==
    /\ rd' = rd
    /\ res' = NoRes

\* a push extends the reference sequence of f; any other change of f ends it
\* until f is empty again
RefPush(f, r) ==
    /\ pushed' = [pushed EXCEPT ![f] = r]
    /\ onlyPush' = onlyPush

RefReset(F, u) ==
    /\ pushed' = [f \in Forests |-> IF f \in F THEN <<>> ELSE pushed[f]]
    /\ onlyPush' = [f \in Forests |-> IF f \in F THEN u[f] = NULL ELSE onlyPush[f]]

\* The Tree arguments a handle is given.  The trees the caller has held since
\* before the cursor was made are interchangeable single nodes, so the one at
\* the lowest address stands for all of them; a tree that came back from
\* depart is not, and each of those is an argument of its own.
Departed == {muts[i].at : i \in {j \in 1..Len(muts) : muts[j].op = "depart"}}

Fresh == trees \ Departed

Args ==
    (trees \cap Departed)
        \cup {t \in Fresh : \A o \in Fresh : t <= o}

----------------------------------------------------------------------------
Init ==
    /\ sib = [n \in Nodes |-> n]
    /\ sub = [f \in Forests |-> NULL]
    /\ trees = Nodes
    /\ free = {}
    /\ it = NoIter
    /\ hd = NoSubnode
    /\ orig = <<>>
    /\ visited = <<>>
    /\ muts = <<>>
    /\ ret = NULL
    /\ noneSeen = FALSE
    /\ pushed = [f \in Forests |-> <<>>]
    /\ onlyPush = [f \in Forests |-> TRUE]
    /\ rd = NoRd
    /\ res = NoRes

push_front(f) ==
    \E t \in trees :
        /\ ~it.live
        /\ LET r == PushFront(sib, sub, f, t)
           IN  sib' = r.sib /\ sub' = r.sub
        /\ trees' = trees \ {t}
        /\ RefPush(f, <<t>> \o pushed[f])
        /\ UNCHANGED <<free, it, hd, hist>>
        /\ NoAux

push_back(f) ==
    \E t \in trees :
        /\ ~it.live
        /\ LET r == PushBack(sib, sub, f, t)
           IN  sib' = r.sib /\ sub' = r.sub
        /\ trees' = trees \ {t}
        /\ RefPush(f, Append(pushed[f], t))
        /\ UNCHANGED <<free, it, hd, hist>>
        /\ NoAux

pop_front(f) ==
    /\ ~it.live
    /\ IF is_empty(sub, f)
       THEN UNCHANGED <<sib, sub, trees>>
       ELSE LET r == PopFront(sib, sub, f)
            IN  /\ sib' = r.sib
                /\ sub' = r.sub
                /\ trees' = trees \cup {r.front}
    /\ RefReset({f}, sub')
    /\ UNCHANGED <<free, it, hd, hist>>
    /\ NoAux

prepend(f) ==
    \E g \in Forests \ {f} :
        /\ ~it.live
        /\ LET r == Prepend(sib, sub, f, g)
           IN  sib' = r.sib /\ sub' = r.sub /\ RefReset({f, g}, r.sub)
        /\ UNCHANGED <<trees, free, it, hd, hist>>
        /\ NoAux

append(f) ==
    \E g \in Forests \ {f} :
        /\ ~it.live
        /\ LET r == AppendF(sib, sub, f, g)
           IN  sib' = r.sib /\ sub' = r.sub /\ RefReset({f, g}, r.sub)
        /\ UNCHANGED <<trees, free, it, hd, hist>>
        /\ NoAux

\* Node addresses are interchangeable too: every forest is a renaming of one
\* whose children sit at the addresses 1..n in order, and the cursor is made
\* on those.
Canonical(f) ==
    LET c == children(sib, sub, f)
    IN  \A i \in 1..Len(c) : c[i] = i

subtrees(f) ==
    /\ ~it.live
    /\ Canonical(f)
    /\ it' = SubtreeIter(sib, sub, f)
    /\ hd' = NoSubnode
    /\ orig' = children(sib, sub, f)
    /\ visited' = <<>>
    /\ muts' = <<>>
    /\ ret' = NULL
    /\ noneSeen' = FALSE
    /\ UNCHANGED <<sib, sub, trees, free, pushed, onlyPush>>
    /\ NoAux

\* OntoIter::next
OntoIter_next ==
    /\ it.live
    /\ IF it.child = NULL \/ AtEnd(it)
       THEN /\ it' = it
            /\ hd' = NoSubnode
            /\ ret' = NULL
            /\ noneSeen' = TRUE
            /\ visited' = visited
       ELSE \E v \in (IF it.curr # NULL THEN Load(sib, it.prev) ELSE {NULL}) :
            LET p == NextPrev(it, v)
            IN  IF it.next # NULL
                THEN \E w \in Load(sib, it.next) :
                     /\ it' = [it EXCEPT !.prev = p, !.curr = it.next, !.next = w]
                     /\ hd' = [live |-> TRUE, node |-> it.next, prev |-> p,
                               ptail |-> it.ptail]
                     /\ ret' = it.next
                     /\ noneSeen' = noneSeen
                     /\ visited' = Append(visited, it.next)
                ELSE /\ it' = [it EXCEPT !.prev = p, !.curr = NULL]
                     /\ hd' = NoSubnode
                     /\ ret' = NULL
                     /\ noneSeen' = TRUE
                     /\ visited' = visited
    /\ UNCHANGED <<sib, sub, trees, free, orig, muts, pushed, onlyPush>>
    /\ NoAux

insert_before ==
    \E t \in Args :
        /\ hd.live
        /\ sib' = InsertBefore(sib, hd, t)
        /\ trees' = trees \ {t}
        /\ muts' = Append(muts, [op |-> "insert_before", at |-> hd.node, t |-> t])
        /\ RefReset({hd.ptail}, sub)
        /\ UNCHANGED <<sub, free, it, hd, orig, visited, ret, noneSeen>>
        /\ NoAux

insert_after ==
    \E t \in Args :
        /\ hd.live
        /\ sib' = InsertAfterSib(sib, hd, t)
        /\ sub' = InsertAfterSub(sub, hd, t)
        /\ trees' = trees \ {t}
        /\ muts' = Append(muts, [op |-> "insert_after", at |-> hd.node, t |-> t])
        /\ RefReset({hd.ptail}, sub')
        /\ UNCHANGED <<free, it, hd, orig, visited, ret, noneSeen>>
        /\ NoAux

\* Subnode::depart; the caller keeps the returned Tree or drops it
depart ==
    \E keep \in BOOLEAN :
        /\ hd.live
        /\ sub' = DepartSub(sib, sub, hd)
        /\ sib' = DepartSib(sib, hd)
        /\ IF keep
           THEN trees' = trees \cup {hd.node} /\ free' = free
           ELSE free' = free \cup {hd.node} /\ trees' = trees
        /\ hd' = NoSubnode
        /\ muts' = Append(muts, [op |-> "depart", at |-> hd.node, t |-> NULL])
        /\ RefReset({hd.ptail}, sub')
        /\ UNCHANGED <<it, orig, visited, ret, noneSeen>>
        /\ NoAux

\* the forest the cursor of Spec is made on
Own == "A"

\* a forest is built, then one cursor is made on it and driven
Next ==
    \/ push_front(Own)
    \/ push_back(Own)
    \/ pop_front(Own)
    \/ subtrees(Own)
    \/ OntoIter_next
    \/ insert_before
    \/ insert_after
    \/ depart

Spec == Init /\ [][Next]_vars

\* the operations of Forest alone, on two forests
NextForest ==
    \/ \E f \in Forests : push_front(f)
    \/ \E f \in Forests : push_back(f)
    \/ \E f \in Forests : pop_front(f)
    \/ \E f \in Forests : prepend(f)
    \/ \E f \in Forests : append(f)

SpecForest == Init /\ [][NextForest]_vars

----------------------------------------------------------------------------
(* The caller of SpecAlg builds forests by pushes and tries the other
   operations of Forest on clones of them: a step makes one call, or one
   short sequence of calls, on a copy of the heap and keeps in res what the
   forests held before, what they hold after and what the call returned.
   The forests themselves stay as the pushes left them. *)

\* the trees of S in the order of their addresses
RECURSIVE SeqOf(_)
SeqOf(S) ==
    IF S = {} THEN <<>>
    ELSE LET m == CHOOSE x \in S : \A y \in S : x <= y
         IN  <<m>> \o SeqOf(S \ {m})

\* Forest::from_iter : push_back of every tree of q into forest f
RECURSIVE FromIter(_, _, _, _)
FromIter(s, u, f, q) ==
    IF q = <<>> THEN [sib |-> s, sub |-> u]
    ELSE LET r == PushBack(s, u, f, Head(q))
         IN  FromIter(r.sib, r.sub, f, Tail(q))

Quiet == ~it.live /\ ~rd.live

Kept == <<sib, sub, trees, free, it, hd, hist, rd, pushed, onlyPush>>

\* f.append(g)
call_append(f) ==
    \E g \in Forests \ {f} :
        LET r == AppendF(sib, sub, f, g)
        IN  /\ Quiet
            /\ res' = [op |-> "append",
                       a |-> children(sib, sub, f),
                       b |-> children(sib, sub, g),
                       after |-> children(r.sib, r.sub, f),
                       given |-> children(r.sib, r.sub, g)]
            /\ UNCHANGED Kept

\* f.prepend(g)
call_prepend(f) ==
    \E g \in Forests \ {f} :
        LET r == Prepend(sib, sub, f, g)
        IN  /\ Quiet
            /\ res' = [op |-> "prepend",
                       a |-> children(sib, sub, f),
                       b |-> children(sib, sub, g),
                       after |-> children(r.sib, r.sub, f),
                       given |-> children(r.sib, r.sub, g)]
            /\ UNCHANGED Kept

\* f.pop_front(), with the Option it returns (NULL for None)
call_pop_front(f) ==
    /\ Quiet
    /\ IF is_empty(sub, f)
       THEN res' = [op |-> "pop_front", a |-> <<>>, t |-> NULL, ret |-> NULL,
                    link |-> NULL, after |-> children(sib, sub, f),
                    tailAfter |-> last(sub, f)]
       ELSE LET r == PopFront(sib, sub, f)
            IN  res' = [op |-> "pop_front",
                        a |-> children(sib, sub, f), t |-> last(sub, f),
                        ret |-> r.front, link |-> r.sib[r.front],
                        after |-> children(r.sib, r.sub, f),
                        tailAfter |-> last(r.sub, f)]
    /\ UNCHANGED Kept

\* if let Some(t) = f.pop_front() { f.push_front(t) }
call_pop_push(f) ==
    /\ Quiet
    /\ ~is_empty(sub, f)
    /\ LET p == PopFront(sib, sub, f)
           q == PushFront(p.sib, p.sub, f, p.front)
       IN  res' = [op |-> "pop_push",
                   a |-> children(sib, sub, f), t |-> last(sub, f),
                   after |-> children(q.sib, q.sub, f),
                   tailAfter |-> last(q.sub, f)]
    /\ UNCHANGED Kept

\* the third operand of the associativity test
Third == "C"

\* Both groupings of three forests, for append and for prepend.  The third
\* forest is collected from the k trees of the caller at the lowest
\* addresses (the trees are interchangeable single nodes).
call_assoc ==
    \E k \in 0..Cardinality(trees) :
        LET u3 == [x \in Forests \cup {Third} |->
                      IF x = Third THEN NULL ELSE sub[x]]
            h  == FromIter(sib, u3, Third, SubSeq(SeqOf(trees), 1, k))
            l1 == AppendF(h.sib, h.sub, "A", "B")
            l2 == AppendF(l1.sib, l1.sub, "A", Third)
            r1 == AppendF(h.sib, h.sub, "B", Third)
            r2 == AppendF(r1.sib, r1.sub, "A", "B")
            m1 == Prepend(h.sib, h.sub, "A", "B")
            m2 == Prepend(m1.sib, m1.sub, "A", Third)
            n1 == Prepend(h.sib, h.sub, "B", Third)
            n2 == Prepend(n1.sib, n1.sub, "A", "B")
        IN  /\ Quiet
            /\ res' = [op |-> "assoc",
                       a |-> children(h.sib, h.sub, "A"),
                       b |-> children(h.sib, h.sub, "B"),
                       c |-> children(h.sib, h.sub, Third),
                       appL |-> children(l2.sib, l2.sub, "A"),
                       appR |-> children(r2.sib, r2.sub, "A"),
                       preL |-> children(m2.sib, m2.sub, "A"),
                       preR |-> children(n2.sib, n2.sub, "A")]
            /\ UNCHANGED Kept

NextAlg ==
    \/ \E f \in Forests : push_front(f)
    \/ \E f \in Forests : push_back(f)
    \/ \E f \in Forests : call_append(f)
    \/ \E f \in Forests : call_prepend(f)
    \/ \E f \in Forests : call_pop_front(f)
    \/ \E f \in Forests : call_pop_push(f)
    \/ call_assoc

SpecAlg == Init /\ [][NextAlg]_vars

----------------------------------------------------------------------------
(* Iter and IterMut.  rd holds the three fields of the iterator (head, tail,
   len) and, as history, the children the forest had when the iterator was
   made (src), the nodes yielded so far (seen) and whether the last call
   returned None (none). *)

Kinds == {"Iter", "IterMut"}

\* Iter::new / IterMut::new
IterNew(k, h, t, n) ==
    [live |-> TRUE, kind |-> k, head |-> h, tail |-> t, len |-> n,
     src |-> <<>>, seen |-> <<>>, none |-> FALSE]

\* next that forgets to count the node down
IterNextKeepLen(r, v) ==
    IF r.head = NULL THEN r
    ELSE [r EXCEPT !.head = IF r.head = r.tail THEN NULL ELSE v]

\* Iter::next / IterMut::next on the fields; v is the value read from
\* (*node).next
IterNext(r, v) ==
    IF r.head = NULL THEN r
    ELSE [r EXCEPT !.head = IF r.head = r.tail THEN NULL ELSE v,
                   !.len = r.len - 1]

\* Iter::size_hint / IterMut::size_hint, both components
size_hint(r) == r.len

\* Forest::children / Forest::children_mut, with the number of children as
\* len.  Neither takes notice of a live cursor: the lifetime of the result
\* is not tied to the borrow of the forest.
Iter_new(f) ==
    \E k \in Kinds :
        /\ rd' = [IF is_empty(sub, f)
                  THEN IterNew(k, NULL, NULL, 0)
                  ELSE IterNew(k, head(sib, sub, f), tail(sub, f),
                               Len(children(sib, sub, f)))
                  EXCEPT !.src = children(sib, sub, f)]
        /\ res' = NoRes
        /\ UNCHANGED <<sib, sub, trees, free, it, hd, hist, pushed, onlyPush>>

\* one call of next; a run of calls ends after MaxNodes + 1 yields
Iter_next ==
    /\ rd.live
    /\ IF rd.head = NULL
       THEN rd' = [IterNext(rd, NULL) EXCEPT !.none = TRUE]
       ELSE /\ Len(rd.seen) <= MaxNodes
            /\ \E v \in Load(sib, rd.head) :
                   rd' = [IterNext(rd, v) EXCEPT
                              !.seen = Append(rd.seen, rd.head),
                              !.none = FALSE]
    /\ res' = NoRes
    /\ UNCHANGED <<sib, sub, trees, free, it, hd, hist, pushed, onlyPush>>

\* a forest is built, iterators are made on it and run to the end
NextIter ==
    \/ ~rd.live /\ push_front(Own)
    \/ ~rd.live /\ push_back(Own)
    \/ Iter_new(Own)
    \/ Iter_next

SpecIter == Init /\ [][NextIter]_vars

\* a forest is built and a cursor is made on it; while the cursor is live
\* one iterator is made on the same forest, and the two are used in any order
NextShared ==
    \/ push_back(Own)
    \/ subtrees(Own)
    \/ OntoIter_next
    \/ insert_after
    \/ it.live /\ ~rd.live /\ Iter_new(Own)
    \/ Iter_next

SpecShared == Init /\ [][NextShared]_vars

----------------------------------------------------------------------------
(* Vocabulary of the properties *)

Range(q) == {q[i] : i \in DOMAIN q}

Distinct(q) == \A i, j \in DOMAIN q : i # j => q[i] # q[j]

IsPrefix(p, q) == Len(p) <= Len(q) /\ \A i \in 1..Len(p) : p[i] = q[i]

Last(q) == q[Len(q)]

\* the children of the forest the cursor is on
Kids == children(sib, sub, Own)

Inserts == {i \in 1..Len(muts) : muts[i].op \in {"insert_before", "insert_after"}}

Inserted == {muts[i].t : i \in Inserts}

OnlyOp(o) == \A i \in 1..Len(muts) : muts[i].op = o

\* q without its element k
RECURSIVE Without(_, _)
Without(q, k) ==
    IF q = <<>> THEN <<>>
    ELSE IF Head(q) = k THEN Without(Tail(q), k)
    ELSE <<Head(q)>> \o Without(Tail(q), k)

\* push_back of the trees of q, in order, into forest f
RECURSIVE PushBackAll(_, _, _, _)
PushBackAll(s, u, f, q) ==
    IF q = <<>> THEN [sib |-> s, sub |-> u]
    ELSE LET r == PushBack(s, u, f, Head(q))
         IN  PushBackAll(r.sib, r.sub, f, Tail(q))

\* the step just taken was a call of o on the live handle
Called(o) ==
    /\ Len(muts') = Len(muts) + 1
    /\ Last(muts').op = o

----------------------------------------------------------------------------
\* C1: once the cursor is exhausted, the children of the forest are exactly
\* the children it had when the cursor was made, minus the departed ones, plus
\* every inserted tree; with nothing departed their number is the original
\* number plus the number of insertions.
C1_NoNodeLost ==
    (it.live /\ noneSeen) =>
        /\ Range(Kids) = (Range(orig) \ (Departed \ Inserted)) \cup Inserted
        /\ Departed = {} => Len(Kids) = Len(orig) + Cardinality(Inserts)

\* C2: every forest is empty or its chain is one cycle: the walk from the
\* head comes back to the tail without meeting a node twice.
C2_ChainIsCycle ==
    \A f \in Forests :
        \/ sub[f] = NULL
        \/ LET c == children(sib, sub, f)
           IN  /\ Last(c) = sub[f]
               /\ Distinct(c)
               /\ NULL \notin Range(c)

\* C3: every node the cursor yields was a child when the cursor was made and
\* no node is yielded twice, whatever is inserted or departed on the way.
C3_OnlyOriginalsYielded ==
    it.live =>
        /\ Range(visited) \subseteq Range(orig)
        /\ Distinct(visited)
        /\ Len(visited) <= Len(orig)

C3_Witness ==
    /\ it.live /\ noneSeen
    /\ Len(orig) >= 2
    /\ Len(visited) = Len(orig)
    /\ \E i \in Inserts : muts[i].op = "insert_after" /\ muts[i].at = Last(orig)
    /\ \E i \in Inserts : muts[i].op = "insert_before" /\ muts[i].at = orig[1]

\* C4: a cursor on which nothing but next is called yields the children of
\* children() in order, returns None only after the last of them, and
\* returns None ever after.
C4_AdvanceOnly ==
    (it.live /\ muts = <<>>) =>
        /\ orig = Kids
        /\ IsPrefix(visited, orig)
        /\ noneSeen => (visited = orig /\ ret = NULL)
        /\ (~noneSeen /\ visited # <<>>) => ret = Last(visited)

C4_Witness ==
    /\ it.live /\ muts = <<>> /\ noneSeen
    /\ Len(orig) >= 3
    /\ visited = orig

\* C5: with one depart and nothing else, the traversal goes on through the
\* original children in order to the original tail, and the forest holds the
\* original children without the departed one, in order.
C5_DetachOne ==
    (it.live /\ Len(muts) = 1 /\ OnlyOp("depart")) =>
        /\ Kids = Without(orig, muts[1].at)
        /\ IsPrefix(visited, orig)
        /\ noneSeen => visited = orig
        /\ sib[muts[1].at] = muts[1].at \/ muts[1].at \in free

C5_Witness ==
    /\ it.live /\ noneSeen
    /\ Len(orig) = 3
    /\ Len(muts) = 1 /\ muts[1].op = "depart" /\ muts[1].at = orig[2]
    /\ visited = orig
    /\ Kids = <<orig[1], orig[3]>>

\* C6: when every yielded node is departed, the forest is empty at the end,
\* the departed trees are the original children in order, and push_back of
\* them in that order into an empty forest gives the original children().
C6_DetachAll ==
    (it.live /\ noneSeen /\ OnlyOp("depart") /\ Len(muts) = Len(orig)) =>
        /\ sub[Own] = NULL
        /\ [i \in 1..Len(muts) |-> muts[i].at] = orig
        /\ Range(orig) \subseteq trees =>
               LET r == PushBackAll(sib, sub, Own, orig)
               IN  children(r.sib, r.sub, Own) = orig

C6_Witness ==
    /\ it.live /\ noneSeen
    /\ Len(orig) >= 3
    /\ OnlyOp("depart") /\ Len(muts) = Len(orig)
    /\ Range(orig) \subseteq trees

\* C7: one insert_before on each yielded node leaves x1,c1,x2,c2,...,xn,cn;
\* one insert_after on each leaves c1,x1,...,cn,xn.
C7_InsertEverywhere ==
    (/\ it.live /\ noneSeen
     /\ Len(muts) = Len(orig)
     /\ \A i \in 1..Len(muts) : muts[i].at = orig[i]) =>
        /\ OnlyOp("insert_before") =>
               Kids = [j \in 1..(2 * Len(orig)) |->
                          IF j % 2 = 1 THEN muts[(j + 1) \div 2].t
                                       ELSE orig[j \div 2]]
        /\ OnlyOp("insert_after") =>
               Kids = [j \in 1..(2 * Len(orig)) |->
                          IF j % 2 = 1 THEN orig[(j + 1) \div 2]
                                       ELSE muts[j \div 2].t]

C7_Witness ==
    /\ it.live /\ noneSeen
    /\ Len(orig) = 2
    /\ Len(muts) = 2 /\ OnlyOp("insert_before")
    /\ muts[1].at = orig[1] /\ muts[2].at = orig[2]
    /\ Kids = <<muts[1].t, orig[1], muts[2].t, orig[2]>>

C7_WitnessAfter ==
    /\ it.live /\ noneSeen
    /\ Len(orig) = 2
    /\ Len(muts) = 2 /\ OnlyOp("insert_after")
    /\ muts[1].at = orig[1] /\ muts[2].at = orig[2]
    /\ Kids = <<orig[1], muts[1].t, orig[2], muts[2].t>>

\* C8: insert_after on the handle of the forest's tail makes the inserted
\* node the tail seen by the forest, linked to the head the forest had;
\* insert_after on any other node leaves the tail pointer alone.
C8_InsertAfterTail ==
    [][Called("insert_after") =>
          IF sub[hd.ptail] = hd.node
          THEN /\ sub'[hd.ptail] = Last(muts').t
               /\ last(sub', hd.ptail) = Last(muts').t
               /\ sib'[Last(muts').t] = head(sib, sub, hd.ptail)
               /\ head(sib', sub', hd.ptail) = head(sib, sub, hd.ptail)
          ELSE sub' = sub]_vars

C8_Witness ==
    /\ hd.live
    /\ muts # <<>>
    /\ Last(muts).op = "insert_after"
    /\ Last(muts).at = Last(orig)
    /\ Len(orig) >= 2
    /\ sub[Own] = Last(muts).t
    /\ Kids = Append(orig, Last(muts).t)

\* C9: insert_before leaves the tail pointer and the cursor's next pointer
\* alone, links the inserted node to the current node, and when the current
\* node is the head makes the tail's sibling link point to the inserted node.
C9_InsertBeforeFrame ==
    [][Called("insert_before") =>
          /\ sub' = sub
          /\ it'.next = it.next
          /\ sib'[Last(muts').t] = hd.node
          /\ hd.node = head(sib, sub, hd.ptail) =>
                 head(sib', sub', hd.ptail) = Last(muts').t]_vars

C11_Merge ==
    /\ res.op = "append" =>
           (res.after = res.a \o res.b /\ res.given = <<>>)
    /\ res.op = "prepend" =>
           (res.after = res.b \o res.a /\ res.given = <<>>)

C11_Witness ==
    /\ res.op = "append"
    /\ Len(res.a) = 2 /\ Len(res.b) = 2
    /\ res.after = res.a \o res.b

\* C12: (A append B) append C and A append (B append C) have the same
\* children, and so have the two groupings of prepend.
C12_Assoc ==
    res.op = "assoc" =>
        /\ res.appL = res.appR
        /\ res.preL = res.preR

C12_Witness ==
    /\ res.op = "assoc"
    /\ Len(res.a) = 2 /\ res.b # <<>> /\ res.c # <<>>
    /\ res.appL = res.a \o res.b \o res.c
    /\ res.preL = res.c \o res.b \o res.a

\* C13: pop_front and then push_front of the tree it returned leave the
\* children and the tail of a non-empty forest as they were.
C13_PopPush ==
    res.op = "pop_push" =>
        /\ res.after = res.a
        /\ res.tailAfter = res.t

C13_Witness ==
    /\ res.op = "pop_push"
    /\ Len(res.a) = 1
    /\ res.after = res.a

\* C14: pop_front of an empty forest returns None and leaves it empty; of a
\* non-empty forest it returns the head, leaves the other children in order
\* under the same tail, and leaves the forest empty exactly when the head
\* was the tail.
C14_PopFront ==
    res.op = "pop_front" =>
        IF res.a = <<>>
        THEN res.ret = NULL /\ res.after = <<>> /\ res.tailAfter = NULL
        ELSE /\ res.ret = Head(res.a)
             /\ res.after = Tail(res.a)
             /\ Len(res.a) > 1 => res.tailAfter = res.t
             /\ res.tailAfter = NULL <=> Head(res.a) = res.t

C14_Witness ==
    /\ res.op = "pop_front"
    /\ Len(res.a) = 1
    /\ res.ret = Head(res.a)
    /\ res.tailAfter = NULL

\* the nodes met by following sibling links from the tail of f
RECURSIVE Reach(_, _, _)
Reach(s, S, fuel) ==
    IF fuel = 0 THEN S ELSE Reach(s, S \cup {s[n] : n \in S}, fuel - 1)

Chain(f) ==
    IF is_empty(sub, f) THEN {} ELSE Reach(sib, {tail(sub, f)}, MaxNodes)

\* C15: a tree handed out by pop_front or by depart (and every other Tree
\* the caller holds) has a root whose sibling link points to itself, no node
\* of a forest's chain links to it, and it is not on a chain.
C15_HandedOutIsolated ==
    \A t \in trees :
        /\ sib[t] = t
        /\ \A f \in Forests : t \notin Chain(f)
        /\ \A f \in Forests : \A n \in Chain(f) : sib[n] # t

\* C15 for runs in which the cursor only departs
C15_DepartOnly ==
    Inserts = {} => C15_HandedOutIsolated

\* C16: while a cursor made by subtrees() is live (neither dropped nor
\* exhausted) no Iter or IterMut over the same forest exists, so none can be
\* obtained or stepped.
C16_Exclusive ==
    ~(it.live /\ ~noneSeen /\ rd.live)

\* C20: an Iter or IterMut made with head, tail and len = the number of
\* nodes from head to tail yields those nodes in chain order and stops after
\* the tail; its size hint is the number of nodes still to come at every
\* step, never below zero; once exhausted every call returns None and
\* leaves len at zero.
C20_IterYields ==
    rd.live =>
        /\ IsPrefix(rd.seen, rd.src)
        /\ size_hint(rd) = Len(rd.src) - Len(rd.seen)
        /\ size_hint(rd) >= 0
        /\ (rd.head = NULL) <=> (rd.seen = rd.src)
        /\ rd.none => (rd.seen = rd.src /\ size_hint(rd) = 0)

C20_Witness ==
    /\ rd.live /\ rd.kind = "IterMut"
    /\ rd.none
    /\ Len(rd.seen) = 3
    /\ rd.seen = Kids

\* a step of next() that yields a handle
Yields == Len(visited') = Len(visited) + 1 /\ hd'.live

\* C17: whenever next() yields the handle of a node c, the prev of the handle
\* is the node whose sibling link points to c, also when a node was
\* inserted after the node yielded before.
C17_PrevIsPredecessor ==
    [][Yields => (hd'.prev \notin free /\ sib'[hd'.prev] = hd'.node)]_vars

\* C17 for runs without insert_after
C17_NoInsertAfter ==
    [][(Yields /\ \A i \in 1..Len(muts) : muts[i].op # "insert_after")
           => (hd'.prev \notin free /\ sib'[hd'.prev] = hd'.node)]_vars

\* q with t placed immediately before or immediately after its element n
PlaceAt(q, n, t, before) ==
    LET i == CHOOSE j \in 1..Len(q) : q[j] = n
    IN  IF before
        THEN SubSeq(q, 1, i - 1) \o <<t>> \o SubSeq(q, i, Len(q))
        ELSE SubSeq(q, 1, i) \o <<t>> \o SubSeq(q, i + 1, Len(q))

\* the last mutation is an insertion on n, the one before it the depart of
\* the node yielded just before n, and nothing was inserted earlier
DepartThenInsert ==
    /\ it.live
    /\ Len(muts) >= 2
    /\ Inserts = {Len(muts)}
    /\ \E i \in 1..(Len(orig) - 1) :
           /\ orig[i] = muts[Len(muts) - 1].at
           /\ orig[i + 1] = Last(muts).at

\* C18: after the depart of c, an insert_before / insert_after on the node n
\* yielded next puts the tree immediately before / after n, leaves the other
\* children in order, and the tail is the last of them.
C18_InsertAfterDepart ==
    DepartThenInsert =>
        LET base == SelectSeq(orig, LAMBDA x : x \notin Departed)
            want == PlaceAt(base, Last(muts).at, Last(muts).t,
                            Last(muts).op = "insert_before")
        IN  /\ Kids = want
            /\ tail(sub, Own) = Last(want)

C18_Witness ==
    /\ DepartThenInsert
    /\ Len(orig) = 3 /\ Len(muts) = 2
    /\ muts[1].at = orig[1]
    /\ muts[2].op = "insert_before"
    /\ Kids = <<muts[2].t, orig[2], orig[3]>>

\* c was the last node before the tail, and the tree goes after the tail
C18_WitnessTail ==
    /\ DepartThenInsert
    /\ Len(orig) = 3 /\ Len(muts) = 2
    /\ muts[1].at = orig[2]
    /\ muts[2].op = "insert_after"
    /\ Kids = <<orig[1], orig[3], muts[2].t>>
    /\ tail(sub, Own) = muts[2].t

\* only two nodes remained after the depart
C18_WitnessTwo ==
    /\ DepartThenInsert
    /\ Len(orig) = 3 /\ Len(muts) = 2
    /\ muts[2].op = "insert_before"
    /\ muts[1].at = orig[2]
    /\ Kids = <<orig[1], muts[2].t, orig[3]>>

\* the cursor has yielded a prefix of the original children, each once, and
\* has returned None only after the last of them
YieldedInOrder ==
    it.live =>
        /\ IsPrefix(visited, orig)
        /\ Distinct(visited)
        /\ noneSeen => (visited = orig /\ ret = NULL /\ ~hd.live)

\* once None was returned, a further call returns None and yields nothing
NoneForEver ==
    noneSeen => (noneSeen' /\ visited' = visited /\ ret' = NULL /\ ~hd'.live)

\* C19: whatever is inserted or departed through the handles, the cursor
\* yields at most the n original children, each exactly once and in order,
\* returns None right after the last of them and on every call after that.
C19_Terminates ==
    []YieldedInOrder /\ [][NoneForEver]_vars

C19_Witness ==
    /\ it.live /\ noneSeen
    /\ Len(orig) = 3 /\ visited = orig
    /\ Len(muts) = 3
    /\ \E i, j \in 1..3 : muts[i].op = "depart" /\ muts[j].op = "insert_after"

====
